---- MODULE Spec2Model ----
(***************************************************************************)
(* Model of the HTTP request-execution engine of apify-client-js:          *)
(* HttpClient.call, _validateAndNormalizeOptions and _call/makeRequest     *)
(* (src/unnamed/part_000), driven by retryWithExpBackoff.                  *)
(*                                                                         *)
(* JavaScript values are tagged records [type, val]; strings are sequences *)
(* of one-character strings so that substr/slice/toUpperCase are computed. *)
(* An options object is a function from the keys it owns to values.        *)
(***************************************************************************)
EXTENDS Integers, Sequences, FiniteSets, TLC

VARIABLES defaultOptions, stats, calls, norm, built

vars == <<defaultOptions, stats, calls, norm, built>>

---------------------------------------------------------------------------
(* Bounds of the model. *)

\* Number of HttpClient.call invocations made on the one client instance.
MaxCalls == 1
\* Largest expBackoffMaxRepeats a caller supplies.
MaxRepeats == 3
\* Longest baseUrl string fed to the normalizer.
MaxUrlLen == 3
\* Calls in flight at once in SpecConcurrent.
MaxConcurrent == 2

---------------------------------------------------------------------------
(* JavaScript values. *)

Undef == [type |-> "undefined", val |-> <<>>]
Str(s) == [type |-> "string", val |-> s]
Num(n) == [type |-> "number", val |-> <<n>>]
Bool(b) == [type |-> "boolean", val |-> <<b>>]
Arr(s) == [type |-> "object", val |-> s]

TypeOf(v) == v.type

\* JavaScript truthiness of a value (the test made by `a && b`, `a ? b : c`).
Truthy(v) ==
    CASE v.type = "undefined" -> FALSE
      [] v.type = "null" -> FALSE
      [] v.type = "boolean" -> v.val[1]
      [] v.type = "number" -> v.val[1] # 0
      [] v.type = "bigint" -> v.val[1] # 0
      [] v.type = "string" -> v.val # <<>>
      [] OTHER -> TRUE

\* options.key: the value of an own key, undefined when the key is absent.
Get(o, k) == IF k \in DOMAIN o THEN o[k] ELSE Undef

\* { ...a, ...b }: own keys of both, b winning on shared keys.
Spread(a, b) ==
    [k \in (DOMAIN a) \cup (DOMAIN b) |-> IF k \in DOMAIN b THEN b[k] ELSE a[k]]

\* Array.prototype.includes on an array of numbers.
Includes(arr, n) == \E i \in 1..Len(arr.val) : arr.val[i] = n

---------------------------------------------------------------------------
(* Strings. *)

LowerCase ==
    <<"a","b","c","d","e","f","g","h","i","j","k","l","m",
      "n","o","p","q","r","s","t","u","v","w","x","y","z">>
UpperCase ==
    <<"A","B","C","D","E","F","G","H","I","J","K","L","M",
      "N","O","P","Q","R","S","T","U","V","W","X","Y","Z">>

ToUpperChar(c) ==
    IF \E i \in 1..Len(LowerCase) : LowerCase[i] = c
    THEN UpperCase[CHOOSE i \in 1..Len(LowerCase) : LowerCase[i] = c]
    ELSE c

\* String.prototype.toUpperCase
ToUpperCase(s) == [i \in 1..Len(s) |-> ToUpperChar(s[i])]

\* s.substr(-1): the last character, the empty string for an empty s.
SubstrLast(s) == IF Len(s) = 0 THEN <<>> ELSE <<s[Len(s)]>>

\* s.slice(0, -1): s without its last character.
SliceDropLast(s) == IF Len(s) = 0 THEN <<>> ELSE SubSeq(s, 1, Len(s) - 1)

---------------------------------------------------------------------------
(* Program constants. *)

RATE_LIMIT_EXCEEDED_STATUS_CODE == 429
EXP_BACKOFF_MILLIS == 500
EXP_BACKOFF_MAX_REPEATS == 8

ALLOWED_HTTP_METHODS ==
    << <<"G","E","T">>, <<"D","E","L","E","T","E">>, <<"H","E","A","D">>,
       <<"P","O","S","T">>, <<"P","U","T">>, <<"P","A","T","C","H">> >>

INVALID_PARAMETER_ERROR_TYPE_V1 == "INVALID_PARAMETER"
INVALID_PARAMETER_ERROR_TYPE_V2 == "invalid-parameter"
REQUEST_FAILED_ERROR_TYPE_V1 == "REQUEST_FAILED"
REQUEST_FAILED_ERROR_TYPE_V2 == "request-failed"

NoDetails == [k \in {} |-> Undef]

\* new ApifyClientError(type, message, details)
ApifyClientError(type, message, details) ==
    [name |-> "ApifyClientError", type |-> type, message |-> message, details |-> details]

\* A message: its fixed text and the values interpolated into it.
Msg(text, args) == [text |-> text, args |-> args]

---------------------------------------------------------------------------
(* HttpClient._validateAndNormalizeOptions *)

Threw(e) == [ok |-> FALSE, value |-> NoDetails, error |-> e]
Returned(v) == [ok |-> TRUE, value |-> v, error |-> Undef]

\* `x = dflt` in a destructuring pattern: dflt when the property is undefined.
Defaulted_OnlyWhenNotOwned(o, k, dflt) == IF k \in DOMAIN o THEN o[k] ELSE dflt

Defaulted(o, k, dflt) == IF Get(o, k) = Undef THEN dflt ELSE Get(o, k)

\* if (baseUrl.substr(-1) === '/') baseUrl = baseUrl.slice(0, -1);
StripTrailingSlash(s) == IF SubstrLast(s) = <<"/">> THEN SliceDropLast(s) ELSE s

\* method = method.toUpperCase();
NormalizedMethod_AsGiven(method) == method

NormalizedMethod(method) == ToUpperCase(method)

IsAllowedMethod(m) == \E i \in 1..Len(ALLOWED_HTTP_METHODS) : ALLOWED_HTTP_METHODS[i] = m

\* authRequired && typeof token !== 'string'
TokenMissing_OnlyUndefined(authRequired, token) == Truthy(authRequired) /\ token = Undef

TokenMissing_EmptyRejected(authRequired, token) ==
    Truthy(authRequired) /\ (TypeOf(token) # "string" \/ token.val = <<>>)

TokenMissing(authRequired, token) == Truthy(authRequired) /\ TypeOf(token) # "string"

ValidateAndNormalizeOptions(options) ==
    LET isApiV1 == Get(options, "isApiV1")
        baseUrl == Get(options, "baseUrl")
        method == Get(options, "method")
        authRequired == Get(options, "authRequired")
        token == Get(options, "token")
        expBackoffMillis == Defaulted(options, "expBackoffMillis", Num(EXP_BACKOFF_MILLIS))
        expBackoffMaxRepeats ==
            Defaulted(options, "expBackoffMaxRepeats", Num(EXP_BACKOFF_MAX_REPEATS))
        retryOnStatusCodes ==
            Defaulted(options, "retryOnStatusCodes", Arr(<<RATE_LIMIT_EXCEEDED_STATUS_CODE>>))
        INVALID_PARAMETER_ERROR_TYPE ==
            IF Truthy(isApiV1) THEN INVALID_PARAMETER_ERROR_TYPE_V1
                               ELSE INVALID_PARAMETER_ERROR_TYPE_V2
    IN  IF TypeOf(baseUrl) # "string"
        THEN Threw(ApifyClientError(INVALID_PARAMETER_ERROR_TYPE,
                 Msg("The \"options.baseUrl\" parameter of type string is required.", <<>>),
                 NoDetails))
        ELSE IF TypeOf(method) # "string"
        THEN Threw(ApifyClientError(INVALID_PARAMETER_ERROR_TYPE,
                 Msg("The \"options.method\" parameter of type string is required.", <<>>),
                 NoDetails))
        ELSE IF ~IsAllowedMethod(NormalizedMethod(method.val))
        THEN Threw(ApifyClientError(INVALID_PARAMETER_ERROR_TYPE_V2,
                 Msg("The \"options.method\" parameter is invalid. Expected one of ... but got: ...",
                     <<ALLOWED_HTTP_METHODS, method>>),
                 NoDetails))
        ELSE IF TokenMissing(authRequired, token)
        THEN Threw(ApifyClientError(INVALID_PARAMETER_ERROR_TYPE,
                 Msg("The \"options.token\" parameter of type string is required.", <<>>),
                 NoDetails))
        ELSE Returned(Spread(options,
                 [baseUrl |-> Str(StripTrailingSlash(baseUrl.val)),
                  method |-> Str(NormalizedMethod(method.val)),
                  expBackoffMillis |-> expBackoffMillis,
                  expBackoffMaxRepeats |-> expBackoffMaxRepeats,
                  retryOnStatusCodes |-> retryOnStatusCodes]))

---------------------------------------------------------------------------
(* One network exchange as the transport reports it. *)

\* Status codes the server answers with.
Statuses == {200, 300, 404, 429, 500}

\* Raw response texts: empty, well-formed JSON, truncated JSON.
Bodies == { <<>>, <<"{","}">>, <<"{">> }

\* The header block of a response.
ResponseHeaders == <<"content-type">>

\* What `await axios.request(axiosConfig)` produces: it throws (failed), or
\* it yields a response with a status code, headers and the unparsed text.
Outcomes ==
    { [failed |-> TRUE, statusCode |-> 0, headers |-> <<>>, data |-> <<>>] }
    \cup [failed : {FALSE}, statusCode : Statuses, headers : {ResponseHeaders}, data : Bodies]

Digits == {"0","1","2","3","4","5","6","7","8","9"}

\* JSON.parse on the texts of the model's grammar: the empty object, a
\* non-empty run of digits; every other text throws a SyntaxError.
JsonParse(s) ==
    IF s = <<"{","}">> THEN [ok |-> TRUE, value |-> [type |-> "object", val |-> <<>>]]
    ELSE IF Len(s) > 0 /\ \A i \in 1..Len(s) : s[i] \in Digits
    THEN [ok |-> TRUE, value |-> [type |-> "json-number", val |-> s]]
    ELSE [ok |-> FALSE, value |-> Undef]

\* JSON.stringify on the structures of the model's grammar.
JsonStringify(v) == IF v.type = "object" THEN <<"{","}">> ELSE v.val

---------------------------------------------------------------------------
(* HttpClient._call / makeRequest: one attempt from the response on. *)

\* newApifyClientErrorFromResponse(body, isApiV1, details) of ./utils
NewApifyClientErrorFromResponse(body, isApiV1, details) ==
    ApifyClientError(
        IF Truthy(isApiV1) THEN REQUEST_FAILED_ERROR_TYPE_V1 ELSE REQUEST_FAILED_ERROR_TYPE_V2,
        Msg("Unexpected error:", <<body>>),
        details)

\* The try block of makeRequest: statusCode, response.body and the caught error.
AttemptLocals_ParseErrorSwallowed(options, outcome) ==
    [ statusCode |-> IF outcome.failed THEN Undef ELSE Num(outcome.statusCode),
      headers |-> outcome.headers,
      body |-> IF outcome.failed THEN Undef
               ELSE IF Truthy(Get(options, "json")) /\ JsonParse(outcome.data).ok
               THEN JsonParse(outcome.data).value ELSE Str(outcome.data),
      error |-> IF outcome.failed THEN Str(<<"E","C","O","N","N">>) ELSE Undef ]

AttemptLocals(options, outcome) ==
    LET raw == Str(outcome.data)
        parse == ~outcome.failed /\ Truthy(Get(options, "json")) /\ Truthy(raw)
        parsed == JsonParse(outcome.data)
    IN  [ statusCode |-> IF outcome.failed THEN Undef ELSE Num(outcome.statusCode),
          headers |-> outcome.headers,
          body |-> IF outcome.failed THEN Undef
                   ELSE IF parse /\ parsed.ok THEN parsed.value ELSE raw,
          error |-> IF outcome.failed THEN Str(<<"E","C","O","N","N">>)
                    ELSE IF parse /\ ~parsed.ok THEN Str(<<"S","y","n","t","a","x">>)
                    ELSE Undef ]

\* if (!statusCode || statusCode < 300) return ..., reached only when nothing threw.
ReturnsValue_Below200(locals) ==
    /\ locals.error = Undef
    /\ (~Truthy(locals.statusCode) \/ locals.statusCode.val[1] < 200)

ReturnsValue_DespiteError(locals) ==
    ~Truthy(locals.statusCode) \/ locals.statusCode.val[1] < 300

ReturnsValue(locals) ==
    /\ locals.error = Undef
    /\ (~Truthy(locals.statusCode) \/ locals.statusCode.val[1] < 300)

\* statusCode >= 300 && statusCode < 500 && !retryOnStatusCodes.includes(statusCode)
IsTerminalStatus_RedirectsOnly(statusCode, retryOnStatusCodes) ==
    /\ TypeOf(statusCode) = "number"
    /\ statusCode.val[1] >= 300
    /\ statusCode.val[1] < 400
    /\ ~Includes(retryOnStatusCodes, statusCode.val[1])

IsTerminalStatus_Through500(statusCode, retryOnStatusCodes) ==
    /\ TypeOf(statusCode) = "number"
    /\ statusCode.val[1] >= 300
    /\ statusCode.val[1] <= 500
    /\ ~Includes(retryOnStatusCodes, statusCode.val[1])

IsTerminalStatus_RateLimitApart(statusCode, retryOnStatusCodes) ==
    /\ TypeOf(statusCode) = "number"
    /\ statusCode.val[1] >= 300
    /\ statusCode.val[1] < 500
    /\ statusCode.val[1] # RATE_LIMIT_EXCEEDED_STATUS_CODE
    /\ ~Includes(retryOnStatusCodes, statusCode.val[1])

IsTerminalStatus(statusCode, retryOnStatusCodes) ==
    /\ TypeOf(statusCode) = "number"
    /\ statusCode.val[1] >= 300
    /\ statusCode.val[1] < 500
    /\ ~Includes(retryOnStatusCodes, statusCode.val[1])

\* statusCode === RATE_LIMIT_EXCEEDED_STATUS_CODE && this.stats
IsRateLimited_AnyClientError(statusCode) ==
    TypeOf(statusCode) = "number" /\ statusCode.val[1] >= 400 /\ statusCode.val[1] < 500

IsRateLimited(statusCode) ==
    TypeOf(statusCode) = "number" /\ statusCode.val[1] = RATE_LIMIT_EXCEEDED_STATUS_CODE

\* The verdict on an attempt, as makeRequest acts on it.
Verdict(options, outcome) ==
    LET locals == AttemptLocals(options, outcome)
    IN  IF ReturnsValue(locals) THEN "Success"
        ELSE IF IsTerminalStatus(locals.statusCode, Get(options, "retryOnStatusCodes"))
        THEN "Terminal"
        ELSE "Retryable"

\* options.resolveWithFullResponse ? response : response.body
ResolvedValue_BodyOnly(options, locals) == locals.body

ResolvedValue(options, locals) ==
    IF Truthy(Get(options, "resolveWithFullResponse"))
    THEN [type |-> "response", statusCode |-> locals.statusCode,
          headers |-> locals.headers, body |-> locals.body]
    ELSE locals.body

TerminalError(options, locals) ==
    NewApifyClientErrorFromResponse(locals.body, Get(options, "isApiV1"),
        [statusCode |-> locals.statusCode,
         url |-> Get(options, "url"),
         method |-> Get(options, "method")])

ErrorMsg_NamesTheAttempt(iteration) ==
    IF iteration = 1 THEN Msg("API request failed on the first try", <<>>)
    ELSE Msg("API request failed on retry number", <<iteration>>)

ErrorMsg(iteration) ==
    IF iteration = 1 THEN Msg("API request failed on the first try", <<>>)
    ELSE Msg("API request failed on retry number", <<iteration - 1>>)

\* The ApifyClientError wrapped in the RetryableError.
OriginalError_BodyNeverSent(options, locals, iteration) ==
    ApifyClientError(
        IF Truthy(Get(options, "isApiV1")) THEN REQUEST_FAILED_ERROR_TYPE_V1
                                          ELSE REQUEST_FAILED_ERROR_TYPE_V2,
        ErrorMsg(iteration),
        [url |-> Get(options, "url"),
         method |-> Get(options, "method"),
         params |-> Get(options, "params"),
         hasBody |-> Bool(FALSE),
         error |-> locals.error,
         statusCode |-> locals.statusCode,
         iteration |-> Num(iteration)])

OriginalError(options, locals, iteration) ==
    ApifyClientError(
        IF Truthy(Get(options, "isApiV1")) THEN REQUEST_FAILED_ERROR_TYPE_V1
                                          ELSE REQUEST_FAILED_ERROR_TYPE_V2,
        ErrorMsg(iteration),
        [url |-> Get(options, "url"),
         method |-> Get(options, "method"),
         params |-> Get(options, "params"),
         hasBody |-> Bool(Truthy(Get(options, "body"))),
         error |-> locals.error,
         statusCode |-> locals.statusCode,
         iteration |-> Num(iteration)])

\* this.stats.rateLimitErrors[iteration - 1]++ or = 1
RateLimitErrorsAfter_IndexedByIteration(rateLimitErrors, iteration, statusCode) ==
    IF IsRateLimited(statusCode)
    THEN IF iteration \in DOMAIN rateLimitErrors
         THEN [rateLimitErrors EXCEPT ![iteration] = @ + 1]
         ELSE [k \in (DOMAIN rateLimitErrors) \cup {iteration} |->
                  IF k = iteration THEN 1 ELSE rateLimitErrors[k]]
    ELSE rateLimitErrors

RateLimitErrorsAfter_StartsOver(rateLimitErrors, iteration, statusCode) ==
    IF IsRateLimited(statusCode)
    THEN [k \in (DOMAIN rateLimitErrors) \cup {iteration - 1} |->
             IF k = iteration - 1 THEN 1 ELSE rateLimitErrors[k]]
    ELSE rateLimitErrors

RateLimitErrorsAfter(rateLimitErrors, iteration, statusCode) ==
    IF IsRateLimited(statusCode)
    THEN IF (iteration - 1) \in DOMAIN rateLimitErrors
         THEN [rateLimitErrors EXCEPT ![iteration - 1] = @ + 1]
         ELSE [k \in (DOMAIN rateLimitErrors) \cup {iteration - 1} |->
                  IF k = iteration - 1 THEN 1 ELSE rateLimitErrors[k]]
    ELSE rateLimitErrors

\* this.stats.calls++ (once in _call, before the first attempt)
StatsCallsIncremented(st) == [st EXCEPT !.calls = @ + 1]

\* this.stats.requests++ (in makeRequest, before each axios.request)
StatsRequestsIncremented_Skipped(st) == st

StatsRequestsIncremented_CallsToo(st) == [st EXCEPT !.requests = @ + 1, !.calls = @ + 1]

StatsRequestsIncremented(st) == [st EXCEPT !.requests = @ + 1]

---------------------------------------------------------------------------
(* retryWithExpBackoff({ func, expBackoffMaxRepeats, expBackoffMillis }) *)

\* After func() threw a RetryableError in loop round i: give up or wait.
RetriesExhausted_OneLate(i, expBackoffMaxRepeats) == i >= expBackoffMaxRepeats.val[1]

RetriesExhausted(i, expBackoffMaxRepeats) == i >= expBackoffMaxRepeats.val[1] - 1

---------------------------------------------------------------------------
(* The client instance and the calls made on it. *)

Calls == 1..MaxCalls

GetMethod == <<"g","e","t">>

\* apifyClientOptions handed to the constructor.
ClientDefaults == { [baseUrl |-> Str(<<"h","/">>), url |-> Str(<<"u">>)] }

\* Per-call settings: JSON negotiation and the retryable-status set, unset
\* (the default [429]), empty, or naming a success and a client-error status.
Settings ==
    { [k \in {} |-> Undef],
      [json |-> Bool(TRUE)],
      [json |-> Bool(TRUE), retryOnStatusCodes |-> Arr(<<>>)],
      [json |-> Bool(TRUE), retryOnStatusCodes |-> Arr(<<200, 404>>)] }

\* callOptions that pass normalization.
ValidCallOptions ==
    { Spread([method |-> Str(GetMethod), expBackoffMaxRepeats |-> Num(n)], s) :
        n \in 1..MaxRepeats, s \in Settings }

\* callOptions that fail it: baseUrl, method type, method name, token.
InvalidCallOptions ==
    { [method |-> Str(GetMethod), baseUrl |-> Num(1)],
      [k \in {} |-> Undef],
      [method |-> Str(<<"f","o","o">>)],
      [method |-> Str(GetMethod), authRequired |-> Bool(TRUE)],
      [method |-> Str(GetMethod), authRequired |-> Bool(TRUE), token |-> Num(1)] }

\* One-attempt calls that ask for the full response, with and without JSON
\* negotiation, one made against API version 1 and one that sends a body.
OptionalCallOptions ==
    { Spread([method |-> Str(GetMethod), expBackoffMaxRepeats |-> Num(1)], s) :
        s \in { [resolveWithFullResponse |-> Bool(TRUE)],
                [resolveWithFullResponse |-> Bool(TRUE), json |-> Bool(TRUE)],
                [isApiV1 |-> Bool(TRUE)],
                [body |-> Str(<<"b">>)] } }

\* The failing callOptions again, made against API version 1.
InvalidCallOptionsV1 ==
    { Spread(o, [isApiV1 |-> Bool(TRUE)]) : o \in InvalidCallOptions }

CallOptions ==
    ValidCallOptions \cup InvalidCallOptions \cup OptionalCallOptions \cup InvalidCallOptionsV1

NoAttempt == [failed |-> FALSE, statusCode |-> 0, headers |-> <<>>, data |-> <<>>]

\* A call: where it stands (pc), the callOptions it was made with, the
\* normalized options, makeRequest's iteration, the retry loop's i, the
\* verdict on each attempt so far, the last attempt (as the transport
\* reported it, and makeRequest's locals for it) and what the call settled with.
NoCall ==
    [pc |-> "idle", descriptor |-> NoDetails, options |-> NoDetails,
     iteration |-> 0, i |-> 0, verdicts |-> <<>>,
     attempt |-> NoAttempt, last |-> Undef, result |-> Undef]

\* An object under construction outside a call: what it is built from and
\* what was built.
BuiltIdle == [stage |-> "idle", input |-> Undef, output |-> Undef]

NormIdle == [stage |-> "idle", options |-> NoDetails, first |-> Undef, second |-> Undef]

Init ==
    /\ defaultOptions \in ClientDefaults
    /\ stats = [calls |-> 0, requests |-> 0, rateLimitErrors |-> [k \in {} |-> 0]]
    /\ calls = [c \in Calls |-> NoCall]
    /\ norm = NormIdle
    /\ built = BuiltIdle

\* makeRequest up to its await: iteration += 1; this.stats.requests++; axios.request(...)
StartAttempt_IterationNotCounted(call) ==
    [call EXCEPT !.pc = "attempting", !.attempt = NoAttempt, !.last = Undef]

StartAttempt_OrdinalSkips(call) ==
    [call EXCEPT !.pc = "attempting", !.iteration = @ + 2,
                 !.attempt = NoAttempt, !.last = Undef]

StartAttempt(call) ==
    [call EXCEPT !.pc = "attempting", !.iteration = @ + 1,
                 !.attempt = NoAttempt, !.last = Undef]

\* HttpClient.call(callOptions): merge, normalize, then _call up to the first await.
Call(c, callOptions) ==
    /\ calls[c].pc = "idle"
    /\ \A b \in DOMAIN calls : b < c => calls[b].pc # "idle"
    /\ LET normalized == ValidateAndNormalizeOptions(Spread(defaultOptions, callOptions))
       IN  IF ~normalized.ok
           THEN /\ calls' = [calls EXCEPT ![c] =
                        [@ EXCEPT !.pc = "rejected", !.descriptor = callOptions,
                                  !.result = normalized.error]]
                /\ UNCHANGED stats
           ELSE /\ calls' = [calls EXCEPT ![c] =
                        StartAttempt([@ EXCEPT !.descriptor = callOptions,
                                               !.options = normalized.value])]
                /\ stats' = StatsRequestsIncremented(StatsCallsIncremented(stats))
    /\ UNCHANGED <<defaultOptions, norm, built>>

\* The rest of makeRequest once axios.request settles, and what
\* retryWithExpBackoff does with its result.
Respond(c, outcome) ==
    /\ calls[c].pc = "attempting"
    /\ LET call == calls[c]
           options == call.options
           locals == AttemptLocals(options, outcome)
           verdict == Verdict(options, outcome)
           seen == [call EXCEPT !.verdicts = Append(@, verdict),
                                !.attempt = outcome, !.last = locals]
       IN  /\ stats' = [stats EXCEPT !.rateLimitErrors =
                   IF verdict = "Success" THEN @
                   ELSE RateLimitErrorsAfter(@, call.iteration, locals.statusCode)]
           /\ calls' = [calls EXCEPT ![c] =
                CASE verdict = "Success" ->
                       [seen EXCEPT !.pc = "resolved",
                                    !.result = ResolvedValue(options, locals)]
                  [] verdict = "Terminal" ->
                       [seen EXCEPT !.pc = "rejected",
                                    !.result = TerminalError(options, locals)]
                  [] OTHER ->
                       IF RetriesExhausted(call.i, Get(options, "expBackoffMaxRepeats"))
                       THEN [seen EXCEPT !.pc = "rejected",
                                !.result = OriginalError(options, locals, call.iteration)]
                       ELSE [seen EXCEPT !.pc = "backoff"]]
    /\ UNCHANGED <<defaultOptions, norm, built>>

\* The delay of retryWithExpBackoff elapses: i++ and func() is called again.
BackoffElapsed(c) ==
    /\ calls[c].pc = "backoff"
    /\ calls' = [calls EXCEPT ![c] = StartAttempt([@ EXCEPT !.i = @ + 1])]
    /\ stats' = StatsRequestsIncremented(stats)
    /\ UNCHANGED <<defaultOptions, norm, built>>

Next ==
    \/ \E c \in Calls, o \in CallOptions : Call(c, o)
    \/ \E c \in Calls, r \in Outcomes : Respond(c, r)
    \/ \E c \in Calls : BackoffElapsed(c)

Spec == Init /\ [][Next]_vars

---------------------------------------------------------------------------
(* Several calls in flight on one client instance: the same handlers, with *)
(* fewer descriptors and outcomes per call.                                *)

ConcurrentCalls == 1..MaxConcurrent

\* Descriptors with the smallest and the largest ceiling and the default
\* retryable set [429], with 429 left out of the set, and one that
\* validation rejects.
ConcurrentCallOptions ==
    { [method |-> Str(GetMethod), expBackoffMaxRepeats |-> Num(n)] : n \in {1, MaxRepeats} }
    \cup { [method |-> Str(GetMethod), expBackoffMaxRepeats |-> Num(MaxRepeats),
            retryOnStatusCodes |-> Arr(<<>>)],
           [k \in {} |-> Undef] }

\* A transport failure, a success, a client error, a rate-limit answer.
ConcurrentOutcomes ==
    { [failed |-> TRUE, statusCode |-> 0, headers |-> <<>>, data |-> <<>>] }
    \cup [failed : {FALSE}, statusCode : {200, 404, 429},
          headers : {ResponseHeaders}, data : { <<>> }]

InitConcurrent ==
    /\ defaultOptions \in ClientDefaults
    /\ stats = [calls |-> 0, requests |-> 0, rateLimitErrors |-> [k \in {} |-> 0]]
    /\ calls = [c \in ConcurrentCalls |-> NoCall]
    /\ norm = NormIdle
    /\ built = BuiltIdle

NextConcurrent ==
    \/ \E c \in ConcurrentCalls, o \in ConcurrentCallOptions : Call(c, o)
    \/ \E c \in ConcurrentCalls, r \in ConcurrentOutcomes : Respond(c, r)
    \/ \E c \in ConcurrentCalls : BackoffElapsed(c)

SpecConcurrent == InitConcurrent /\ [][NextConcurrent]_vars

\* A pending network attempt settles (axios.request resolves or throws) or a
\* pending backoff wait elapses.
Progress ==
    \/ \E c \in Calls, r \in ConcurrentOutcomes : Respond(c, r)
    \/ \E c \in Calls : BackoffElapsed(c)

NextResponsive ==
    \/ \E c \in Calls, o \in CallOptions : Call(c, o)
    \/ Progress

\* The client with every descriptor of Spec when the transport and the timers
\* do not stall: as long as attempts or waits are pending, one of them
\* completes.
SpecResponsive == Init /\ [][NextResponsive]_vars /\ WF_vars(Progress)

\* The same calls against a server that answers every attempt with 429.
ThrottledOutcomes == { r \in ConcurrentOutcomes : ~r.failed /\ r.statusCode = 429 }

NextThrottled ==
    \/ \E c \in ConcurrentCalls, o \in ConcurrentCallOptions : Call(c, o)
    \/ \E c \in ConcurrentCalls, r \in ThrottledOutcomes : Respond(c, r)
    \/ \E c \in ConcurrentCalls : BackoffElapsed(c)

SpecThrottled == InitConcurrent /\ [][NextThrottled]_vars

---------------------------------------------------------------------------
(* The normalizer on its own: HttpClient.call's merge and                  *)
(* _validateAndNormalizeOptions applied to a descriptor, then applied to   *)
(* the descriptor it returned.                                             *)

\* Marks a key the options object does not own.
Absent == [type |-> "absent", val |-> <<>>]

\* The options object owning the keys of r that are not marked Absent.
Bag(r) == [k \in {j \in DOMAIN r : r[j] # Absent} |-> r[k]]

UrlChars == {"h", "/"}

\* Every string over UrlChars of length at most MaxUrlLen.
UrlStrings == UNION { [1..n -> UrlChars] : n \in 0..MaxUrlLen }

BaseUrlInputs == { Str(u) : u \in UrlStrings } \cup {Absent, Num(1)}

MethodInputs ==
    { Str(m) : m \in { <<"G","E","T">>, <<"g","e","t">>, <<"D","e","l","e","t","e">>,
                       <<"h","e","a","d">>, <<"p","o","s","t">>, <<"P","U","T">>,
                       <<"p","a","t","c","h">>, <<"g","e","t","s">>,
                       <<"O","P","T","I","O","N","S">>, <<>> } }
    \cup {Absent, Num(1)}

TokenInputs == {Absent, Str(<<>>), Str(<<"t">>), Num(1)}

NormCallOptions ==
    { Bag(r) : r \in [ baseUrl : BaseUrlInputs,
                       method : MethodInputs,
                       authRequired : {Absent, Bool(TRUE)},
                       token : TokenInputs,
                       isApiV1 : {Absent, Bool(TRUE)},
                       expBackoffMillis : {Absent, Num(100)},
                       expBackoffMaxRepeats : {Absent, Undef, Num(MaxRepeats)},
                       retryOnStatusCodes : {Absent, Arr(<<404>>)} ] }

NormDefaults ==
    { [k \in {} |-> Undef],
      [baseUrl |-> Str(<<"h","/">>), token |-> Str(<<"t">>), expBackoffMaxRepeats |-> Num(1)] }

InitNorm ==
    /\ defaultOptions \in NormDefaults
    /\ stats = [calls |-> 0, requests |-> 0, rateLimitErrors |-> [k \in {} |-> 0]]
    /\ calls = [c \in Calls |-> NoCall]
    /\ built = BuiltIdle
    /\ \E o \in NormCallOptions :
          norm = [stage |-> "input", options |-> o, first |-> Undef, second |-> Undef]

\* const mergedOptions = { ...this.defaultOptions, ...callOptions };
\* const normalizedOptions = this._validateAndNormalizeOptions(mergedOptions);
Normalize ==
    /\ norm.stage = "input"
    /\ norm' = [norm EXCEPT !.stage = "normalized",
                   !.first = ValidateAndNormalizeOptions(Spread(defaultOptions, norm.options))]
    /\ UNCHANGED <<defaultOptions, stats, calls, built>>

\* _validateAndNormalizeOptions applied to the descriptor it returned.
NormalizeAgain ==
    /\ norm.stage = "normalized"
    /\ norm.first.ok
    /\ norm' = [norm EXCEPT !.stage = "renormalized",
                   !.second = ValidateAndNormalizeOptions(norm.first.value)]
    /\ UNCHANGED <<defaultOptions, stats, calls, built>>

NextNorm == Normalize \/ NormalizeAgain

SpecNorm == InitNorm /\ [][NextNorm]_vars

---------------------------------------------------------------------------
(* Facts the properties below are stated in: read off the call's record    *)
(* and the transport's report of its last attempt.                         *)

RECURSIVE SumIterations(_)
SumIterations(S) ==
    IF S = {} THEN 0
    ELSE LET c == CHOOSE x \in S : TRUE
         IN  calls[c].iteration + SumIterations(S \ {c})

\* Attempts started by all calls together.
TotalAttempts == SumIterations(Calls)

\* The call's last attempt has completed and no newer one is in flight.
HasAttempt(call) == call.pc \in {"backoff", "resolved", "rejected"} /\ call.verdicts # <<>>

Ceiling(call) == call.options["expBackoffMaxRepeats"].val[1]

RetrySetOf(call) ==
    LET codes == call.options["retryOnStatusCodes"].val
    IN  { codes[j] : j \in 1..Len(codes) }

JsonWanted(call) ==
    "json" \in DOMAIN call.descriptor /\ call.descriptor["json"] = Bool(TRUE)

WellFormedTexts == { <<"{","}">> }

\* The last attempt got a non-empty body that is not JSON, with JSON expected.
ParseFailed(call) ==
    /\ JsonWanted(call)
    /\ ~call.attempt.failed
    /\ call.attempt.data # <<>>
    /\ call.attempt.data \notin WellFormedTexts

\* The last attempt got a status in [300,500) outside the retryable set.
TerminalStatus(call) ==
    /\ ~call.attempt.failed
    /\ call.attempt.statusCode >= 300
    /\ call.attempt.statusCode < 500
    /\ call.attempt.statusCode \notin RetrySetOf(call)

\* The status code as an error's details carry it.
StatusOf(call) == IF call.attempt.failed THEN Undef ELSE Num(call.attempt.statusCode)

\* The payload a successful last attempt decodes to.
PayloadOf(call) ==
    IF JsonWanted(call) /\ call.attempt.data = <<"{","}">>
    THEN [type |-> "object", val |-> <<>>]
    ELSE Str(call.attempt.data)

FullResponseWanted(call) ==
    "resolveWithFullResponse" \in DOMAIN call.descriptor
    /\ call.descriptor["resolveWithFullResponse"] = Bool(TRUE)

\* What a successful last attempt hands to the caller: the payload, or the
\* response around it when the full response was asked for.
Delivered(call) ==
    IF FullResponseWanted(call)
    THEN [type |-> "response", statusCode |-> Num(call.attempt.statusCode),
          headers |-> call.attempt.headers, body |-> PayloadOf(call)]
    ELSE PayloadOf(call)

AllRetryable(verdicts) == \A j \in 1..Len(verdicts) : verdicts[j] = "Retryable"

RequestFailedTypes == {REQUEST_FAILED_ERROR_TYPE_V1, REQUEST_FAILED_ERROR_TYPE_V2}
InvalidParameterTypes == {INVALID_PARAMETER_ERROR_TYPE_V1, INVALID_PARAMETER_ERROR_TYPE_V2}

\* The error of exhausted retries: request-failed, built in the last attempt.
IsExhaustedError(call) ==
    /\ call.result.name = "ApifyClientError"
    /\ call.result.type \in RequestFailedTypes
    /\ call.result.message.text \in
          {"API request failed on the first try", "API request failed on retry number"}
    /\ call.result.details["iteration"] = Num(call.iteration)
    /\ call.result.details["statusCode"] = StatusOf(call)

\* Nothing more happens to call c: no attempt is in flight or scheduled.
Quiet(c) ==
    /\ ~ENABLED (\E r \in Outcomes : Respond(c, r))
    /\ ~ENABLED BackoffElapsed(c)
    /\ ~ENABLED (\E o \in CallOptions : Call(c, o))

---------------------------------------------------------------------------
(* Properties of the engine (specification Spec). *)

\* C1: a call whose attempt returns a status in [300,500) that is not in
\* retryOnStatusCodes fails with that attempt: it is rejected with an error
\* carrying that status code, no further attempt of it is started, and
\* stats.requests has counted one request per attempt started.
C1_TerminalStatusFailsAtOnce ==
    \A c \in Calls :
        LET call == calls[c]
        IN  (HasAttempt(call) /\ TerminalStatus(call)) =>
                /\ call.pc = "rejected"
                /\ Quiet(c)
                /\ call.iteration = Len(call.verdicts)
                /\ stats.requests = TotalAttempts
                /\ call.result.name = "ApifyClientError"
                /\ call.result.details["statusCode"] = Num(call.attempt.statusCode)

\* C1 witness: a 404 on the first attempt under the default retryable set,
\* with retries still available, rejected after that one request.
C1_Witness ==
    \E c \in Calls :
        /\ calls[c].pc = "rejected"
        /\ calls[c].attempt.statusCode = 404
        /\ calls[c].options["retryOnStatusCodes"] = Arr(<<RATE_LIMIT_EXCEEDED_STATUS_CODE>>)
        /\ Ceiling(calls[c]) = MaxRepeats
        /\ calls[c].iteration = 1
        /\ stats.requests = 1

\* C2: a call all of whose attempts were classified retryable has made
\* exactly expBackoffMaxRepeats attempts when it settles, and then it is
\* rejected with the request-failed error built in its last attempt; before
\* that it is waiting to retry; and no call ever exceeds its ceiling.
C2_RetriesUpToCeiling ==
    \A c \in Calls :
        LET call == calls[c]
        IN  /\ call.options # NoDetails => call.iteration <= Ceiling(call)
            /\ call.pc = "attempting" =>
                  call.iteration = Len(call.verdicts) + 1 /\ AllRetryable(call.verdicts)
            /\ (HasAttempt(call) /\ AllRetryable(call.verdicts)) =>
                  IF Len(call.verdicts) < Ceiling(call)
                  THEN call.pc = "backoff" /\ call.iteration = Len(call.verdicts)
                  ELSE /\ call.pc = "rejected"
                       /\ Len(call.verdicts) = Ceiling(call)
                       /\ call.iteration = Ceiling(call)
                       /\ IsExhaustedError(call)
                       /\ Quiet(c)

\* C2 witness: the largest ceiling, 429 on every attempt.
C2_Witness ==
    \E c \in Calls :
        /\ calls[c].pc = "rejected"
        /\ calls[c].verdicts # <<>>
        /\ Ceiling(calls[c]) = MaxRepeats
        /\ calls[c].iteration = MaxRepeats
        /\ Len(calls[c].verdicts) = MaxRepeats
        /\ AllRetryable(calls[c].verdicts)
        /\ stats.requests = MaxRepeats
        /\ DOMAIN stats.rateLimitErrors = 0..(MaxRepeats - 1)

\* C3: a call whose last attempt got a status below 300 and a decodable body
\* resolves with that attempt's payload; every attempt before it was
\* retryable, and the attempts started are exactly those classified.
C3_SuccessAfterRetries ==
    \A c \in Calls :
        LET call == calls[c]
        IN  (HasAttempt(call) /\ ~call.attempt.failed /\ call.attempt.statusCode < 300
                 /\ ~ParseFailed(call)) =>
                /\ call.pc = "resolved"
                /\ call.result = Delivered(call)
                /\ call.iteration = Len(call.verdicts)
                /\ AllRetryable(SubSeq(call.verdicts, 1, Len(call.verdicts) - 1))
                /\ stats.requests = TotalAttempts
                /\ Quiet(c)

\* C3 witness: one retryable failure that was no 429, then a 200 on the
\* second attempt: resolved, two requests.
C3_Witness ==
    \E c \in Calls :
        /\ calls[c].pc = "resolved"
        /\ calls[c].verdicts = <<"Retryable", "Success">>
        /\ calls[c].attempt.statusCode = 200
        /\ calls[c].iteration = 2
        /\ stats.requests = 2
        /\ DOMAIN stats.rateLimitErrors = {}

C5_VerdictPartition ==
    \A c \in Calls :
        LET call == calls[c]
            verdict == call.verdicts[Len(call.verdicts)]
            success == /\ ~call.attempt.failed
                       /\ ~ParseFailed(call)
                       /\ call.attempt.statusCode < 300
        IN  HasAttempt(call) =>
                /\ verdict \in {"Success", "Terminal", "Retryable"}
                /\ (verdict = "Success") <=> success
                /\ (verdict = "Terminal") <=> TerminalStatus(call)
                /\ (verdict = "Retryable") <=> (~success /\ ~TerminalStatus(call))
                /\ (~call.attempt.failed /\ call.attempt.statusCode >= 500) =>
                       verdict = "Retryable"
                /\ (verdict = "Success") <=> (call.pc = "resolved")
                /\ (verdict = "Terminal") =>
                       /\ call.pc = "rejected"
                       /\ DOMAIN call.result.details = {"statusCode", "url", "method"}
                       /\ call.result.details["statusCode"] = StatusOf(call)
                /\ (verdict = "Retryable") =>
                       \/ call.pc = "backoff"
                       \/ call.pc = "rejected" /\ IsExhaustedError(call)

\* C5 witness: a 200 resolves a call whose retryOnStatusCodes lists 200.
C5_Witness ==
    \E c \in Calls :
        /\ calls[c].pc = "resolved"
        /\ calls[c].attempt.statusCode = 200
        /\ 200 \in RetrySetOf(calls[c])

\* The merged descriptor of a call fails normalization: baseUrl or method
\* is no string, the method is none of the allowed ones in any letter case,
\* or a token is required and is no string.
AllowedNames ==
    { <<"G","E","T">>, <<"D","E","L","E","T","E">>, <<"H","E","A","D">>,
      <<"P","O","S","T">>, <<"P","U","T">>, <<"P","A","T","C","H">> }

SameLetter(a, b) ==
    a = b \/ \E n \in 1..Len(LowerCase) : {a, b} = {LowerCase[n], UpperCase[n]}

SameIgnoringCase(s, t) ==
    Len(s) = Len(t) /\ \A n \in 1..Len(s) : SameLetter(s[n], t[n])

\* The method name is one of the allowed ones, in any letter case.
MethodAllowed(m) == \E a \in AllowedNames : SameIgnoringCase(m, a)

TokenRequiredButNoString(d) ==
    Get(d, "authRequired") = Bool(TRUE) /\ Get(d, "token").type # "string"

FailsNormalization(d) ==
    \/ Get(d, "baseUrl").type # "string"
    \/ Get(d, "method").type # "string"
    \/ ~MethodAllowed(Get(d, "method").val)
    \/ TokenRequiredButNoString(d)

\* The calls that were made and whose descriptor passes normalization.
PassedCalls ==
    { c \in Calls : calls[c].pc # "idle"
                    /\ ~FailsNormalization(Spread(defaultOptions, calls[c].descriptor)) }

\* C7: a call whose descriptor fails normalization is rejected with an
\* invalid-parameter error without any attempt: it never has an attempt
\* started or retried, and making it leaves calls, requests and
\* rateLimitErrors of the stats as they were.
C7_InvalidDescriptorNoAttempt ==
    /\ [](\A c \in Calls :
            (calls[c].pc # "idle"
                /\ FailsNormalization(Spread(defaultOptions, calls[c].descriptor))) =>
                /\ calls[c].pc = "rejected"
                /\ calls[c].result.type \in InvalidParameterTypes
                /\ calls[c].iteration = 0
                /\ calls[c].verdicts = <<>>
                /\ Quiet(c)
                /\ stats.calls = Cardinality(PassedCalls)
                /\ stats.requests = TotalAttempts)
    /\ [][\A c \in Calls :
            (calls[c].pc = "idle" /\ calls'[c].pc # "idle"
                /\ FailsNormalization(Spread(defaultOptions, calls'[c].descriptor)))
            => stats' = stats]_vars

\* C7 witness: a call requiring a token and given none was rejected, the
\* stats still at zero.
C7_Witness ==
    \E c \in Calls :
        /\ calls[c].pc = "rejected"
        /\ Get(calls[c].descriptor, "authRequired") = Bool(TRUE)
        /\ Get(Spread(defaultOptions, calls[c].descriptor), "token") = Undef
        /\ stats = [calls |-> 0, requests |-> 0, rateLimitErrors |-> [k \in {} |-> 0]]

---------------------------------------------------------------------------
(* Properties of the normalizer (specification SpecNorm). *)

\* The descriptor _validateAndNormalizeOptions was given.
Merged == Spread(defaultOptions, norm.options)

\* C6: with a string baseUrl, a string method is accepted iff it is one of
\* GET, DELETE, HEAD, POST, PUT, PATCH in some letter case (the token check
\* alone can still reject the descriptor) and is then returned upper-cased;
\* every other string method fails with an invalid-parameter error whose
\* message names the allowed set.
C6_MethodAcceptedIffAllowed ==
    LET method == Get(Merged, "method")
        r == norm.first
    IN  (norm.stage # "input" /\ Get(Merged, "baseUrl").type = "string"
             /\ method.type = "string") =>
            IF MethodAllowed(method.val)
            THEN /\ r.ok <=> ~TokenRequiredButNoString(Merged)
                 /\ r.ok => /\ r.value["method"].type = "string"
                            /\ r.value["method"].val \in AllowedNames
                            /\ SameIgnoringCase(r.value["method"].val, method.val)
                 /\ ~r.ok => r.error.message.text =
                                 "The \"options.token\" parameter of type string is required."
            ELSE /\ ~r.ok
                 /\ r.error.name = "ApifyClientError"
                 /\ r.error.type \in InvalidParameterTypes
                 /\ r.error.message.args =
                        << << <<"G","E","T">>, <<"D","E","L","E","T","E">>,
                              <<"H","E","A","D">>, <<"P","O","S","T">>, <<"P","U","T">>,
                              <<"P","A","T","C","H">> >>,
                           method >>

\* C6 witness: "patch" was accepted and returned as "PATCH".
C6_Witness ==
    /\ norm.stage = "normalized"
    /\ Get(Merged, "method") = Str(<<"p","a","t","c","h">>)
    /\ norm.first.ok
    /\ norm.first.value["method"] = Str(<<"P","A","T","C","H">>)

C9_NormalizationIdempotent ==
    norm.stage = "renormalized" => norm.second.ok /\ norm.second.value = norm.first.value

\* What does hold of a second normalization: it succeeds and changes no
\* field but baseUrl, and baseUrl only when the first result still ended in '/'.
C9_IdempotentButForBaseUrl ==
    norm.stage = "renormalized" =>
        /\ norm.second.ok
        /\ DOMAIN norm.second.value = DOMAIN norm.first.value
        /\ \A k \in DOMAIN norm.first.value :
              k # "baseUrl" => norm.second.value[k] = norm.first.value[k]
        /\ norm.second.value["baseUrl"] # norm.first.value["baseUrl"] =>
              SubstrLast(norm.first.value["baseUrl"].val) = <<"/">>

EndsInSeparator(s) == Len(s) > 0 /\ s[Len(s)] = "/"

\* C10: the baseUrl returned for a string baseUrl does not end in '/', and is
\* the input without its trailing separator.
C10_NoTrailingSeparator ==
    LET given == Get(Merged, "baseUrl").val
        out == norm.first.value["baseUrl"].val
    IN  (norm.stage # "input" /\ norm.first.ok) =>
            /\ ~EndsInSeparator(out)
            /\ out = IF EndsInSeparator(given) THEN SubSeq(given, 1, Len(given) - 1) ELSE given

\* What does hold: exactly one trailing '/' is removed, so the result ends
\* in '/' exactly when the input ended in two.
C10_OneSeparatorRemoved ==
    LET given == Get(Merged, "baseUrl").val
        out == norm.first.value["baseUrl"].val
    IN  (norm.stage # "input" /\ norm.first.ok) =>
            /\ out = IF EndsInSeparator(given) THEN SubSeq(given, 1, Len(given) - 1) ELSE given
            /\ EndsInSeparator(out) <=>
                  (Len(given) >= 2 /\ given[Len(given)] = "/" /\ given[Len(given) - 1] = "/")

RetryKnobs == {"expBackoffMillis", "expBackoffMaxRepeats", "retryOnStatusCodes"}

\* What the caller gave for a knob: the per-call value when callOptions owns
\* the key, else the client default, else undefined.
GivenKnob(k) ==
    IF k \in DOMAIN norm.options THEN norm.options[k] ELSE Get(defaultOptions, k)

DocumentedKnobDefault(k) ==
    CASE k = "expBackoffMillis" -> Num(500)
      [] k = "expBackoffMaxRepeats" -> Num(8)
      [] k = "retryOnStatusCodes" -> Arr(<<429>>)

\* C11: for every accepted descriptor, a retry knob the caller gave no value
\* for (absent, or undefined) comes back as its documented default (500, 8,
\* [429]); a knob given a value comes back with that value; the per-call
\* options win over the client defaults on every key they own.
C11_KnobsDefaultedOrKept ==
    (norm.stage # "input" /\ norm.first.ok) =>
        \A k \in RetryKnobs :
            norm.first.value[k] =
                IF GivenKnob(k) = Undef THEN DocumentedKnobDefault(k) ELSE GivenKnob(k)

\* An accepted descriptor whose per-call ceiling overrides the client's, whose
\* delay was left unset and whose retryable set was given.
C11_Witness ==
    /\ norm.stage = "normalized"
    /\ norm.first.ok
    /\ Get(defaultOptions, "expBackoffMaxRepeats") = Num(1)
    /\ Get(norm.options, "expBackoffMaxRepeats") = Num(MaxRepeats)
    /\ norm.first.value["expBackoffMaxRepeats"] = Num(MaxRepeats)
    /\ "expBackoffMillis" \notin DOMAIN Merged
    /\ norm.first.value["expBackoffMillis"] = Num(EXP_BACKOFF_MILLIS)
    /\ norm.first.value["retryOnStatusCodes"] = Arr(<<404>>)

---------------------------------------------------------------------------
(* Properties of concurrent calls (specifications SpecConcurrent, SpecThrottled). *)

InFlight(call) == call.pc \in {"attempting", "backoff"}

\* C12: in every reachable state, whatever calls were made and however their
\* attempts interleave, stats.requests is at least stats.calls.
C12_RequestsAtLeastCalls == stats.requests >= stats.calls

\* Two calls in flight at once, one of them already retrying.
C12_Witness ==
    /\ \A c \in DOMAIN calls : InFlight(calls[c])
    /\ \E c \in DOMAIN calls : calls[c].iteration > 1
    /\ stats.calls = MaxConcurrent
    /\ stats.requests > stats.calls

\* The step settles the attempt call c had in flight.
AttemptSettles(c) == calls[c].pc = "attempting" /\ calls'[c].pc # "attempting"

\* The step settles c's attempt with a received status 429.
AttemptThrottled(c) ==
    /\ AttemptSettles(c)
    /\ ~calls'[c].attempt.failed
    /\ calls'[c].attempt.statusCode = 429

\* The rate-limit counter of the attempt ordinal n (n = 1 for a call's first
\* attempt) is element n of the rateLimitErrors array, at index n - 1.
HasCounter(st, n) == (n - 1) \in DOMAIN st.rateLimitErrors
CounterAt(st, n) == st.rateLimitErrors[n - 1]
CountedOrdinals(st) == { k + 1 : k \in DOMAIN st.rateLimitErrors }

ThrottledCountsOnce ==
    \A c \in DOMAIN calls :
        AttemptThrottled(c) =>
            /\ HasCounter(stats', calls[c].iteration)
            /\ CounterAt(stats', calls[c].iteration) =
                  IF HasCounter(stats, calls[c].iteration)
                  THEN CounterAt(stats, calls[c].iteration) + 1
                  ELSE 1

\* A single call that was throttled on every attempt and gave up at its ceiling.
OneCallExhausted ==
    /\ stats.calls = 1
    /\ calls[1].pc = "rejected"
    /\ calls[1].verdicts # <<>>
    /\ calls[1].iteration = Ceiling(calls[1])
    /\ AllRetryable(calls[1].verdicts)

\* C13: an attempt that receives 429 adds exactly 1 to the rate-limit counter
\* of its own ordinal, the counter starting at 1 when there was none; and
\* when every attempt is answered 429, a single call that started from empty
\* stats and exhausted its ceiling n (n = 3 included) leaves a counter of 1
\* at each of the ordinals 1..n and no counter anywhere else.
C13_ThrottledAttemptCounted ==
    /\ [][ThrottledCountsOnce]_vars
    /\ [](OneCallExhausted =>
            /\ CountedOrdinals(stats) = 1..Ceiling(calls[1])
            /\ \A n \in CountedOrdinals(stats) : CounterAt(stats, n) = 1)

\* Ceiling 3, 429 three times: counters 1, 1, 1 at the ordinals 1, 2, 3.
C13_Witness ==
    /\ OneCallExhausted
    /\ Ceiling(calls[1]) = 3
    /\ calls[1].attempt.statusCode = 429
    /\ stats.requests = 3
    /\ stats.rateLimitErrors = [k \in 0..2 |-> 1]

---------------------------------------------------------------------------
(* Further properties of the engine (specification Spec). *)

\* Call c gave up: its last attempt was retryable and no retry was left.
Exhausted(call) ==
    /\ call.pc = "rejected"
    /\ call.verdicts # <<>>
    /\ call.verdicts[Len(call.verdicts)] = "Retryable"

\* What went wrong in the last attempt besides its status: the transport's
\* failure, the parser's, or nothing.
CauseOf(call) ==
    IF call.attempt.failed THEN Str(<<"E","C","O","N","N">>)
    ELSE IF ParseFailed(call) THEN Str(<<"S","y","n","t","a","x">>)
    ELSE Undef

\* C14: a call that exhausted its attempts rejects with the message 'API
\* request failed on the first try' when its ceiling is 1 and 'API request
\* failed on retry number N', N = expBackoffMaxRepeats - 1, otherwise; the
\* error is the one of the last attempt: it carries the ordinal, the status
\* code and the cause of that attempt.
C14_ExhaustedMessage ==
    \A c \in DOMAIN calls :
        Exhausted(calls[c]) =>
            /\ calls[c].result.message =
                  IF Ceiling(calls[c]) = 1
                  THEN [text |-> "API request failed on the first try", args |-> <<>>]
                  ELSE [text |-> "API request failed on retry number",
                        args |-> <<Ceiling(calls[c]) - 1>>]
            /\ calls[c].result.details["iteration"] = Num(Ceiling(calls[c]))
            /\ calls[c].result.details["statusCode"] = StatusOf(calls[c])
            /\ calls[c].result.details["error"] = CauseOf(calls[c])

\* Ceiling 3, the third attempt answered 500: 'retry number 2'.
C14_Witness ==
    \E c \in DOMAIN calls :
        /\ Exhausted(calls[c])
        /\ Ceiling(calls[c]) = 3
        /\ calls[c].attempt.statusCode = 500
        /\ calls[c].result.message.args = <<2>>

\* The last attempt of the call was answered below 300 and nothing failed.
Succeeded(call) ==
    /\ HasAttempt(call)
    /\ ~call.attempt.failed
    /\ call.attempt.statusCode < 300
    /\ ~ParseFailed(call)

\* The structures a JSON body of the model encodes.
JsonStructures == { [type |-> "object", val |-> <<>>] }

\* C15: a successful attempt resolves the call with the response body: the
\* text as received without options.json; with options.json the structure
\* the text encodes (an empty body stays the empty text); and with
\* resolveWithFullResponse the response itself, carrying the status code,
\* the headers and that body.
C15_SuccessDelivers ==
    \A c \in DOMAIN calls :
        LET call == calls[c]
            body == IF FullResponseWanted(call) THEN call.result.body ELSE call.result
        IN  Succeeded(call) =>
                /\ call.pc = "resolved"
                /\ FullResponseWanted(call) =>
                       /\ call.result.type = "response"
                       /\ call.result.statusCode = Num(call.attempt.statusCode)
                       /\ call.result.headers = call.attempt.headers
                /\ JsonWanted(call) =>
                       /\ \A v \in JsonStructures :
                              call.attempt.data = JsonStringify(v) => body = v
                       /\ call.attempt.data = <<>> => body = Str(<<>>)
                /\ ~JsonWanted(call) => body = Str(call.attempt.data)

\* A 200 with the body {} for a call that asked for JSON and the full response.
C15_Witness ==
    \E c \in DOMAIN calls :
        /\ Succeeded(calls[c])
        /\ FullResponseWanted(calls[c])
        /\ JsonWanted(calls[c])
        /\ calls[c].attempt.data = <<"{","}">>
        /\ calls[c].result.statusCode = Num(200)
        /\ calls[c].result.headers = ResponseHeaders
        /\ calls[c].result.body = [type |-> "object", val |-> <<>>]

\* The call was made against API version 1.
V1Wanted(call) == Truthy(Get(Spread(defaultOptions, call.descriptor), "isApiV1"))

\* The call was rejected by validation, before any attempt.
RejectedByValidation(call) == call.pc = "rejected" /\ call.verdicts = <<>>

\* The descriptor fails validation on the name of its method only.
MethodNameRefused(call) ==
    LET d == Spread(defaultOptions, call.descriptor)
    IN  /\ TypeOf(Get(d, "baseUrl")) = "string"
        /\ TypeOf(Get(d, "method")) = "string"
        /\ ~MethodAllowed(Get(d, "method").val)

TagFollowsVersion(call) ==
    /\ RejectedByValidation(call) =>
          call.result.type = IF V1Wanted(call) THEN INVALID_PARAMETER_ERROR_TYPE_V1
                                               ELSE INVALID_PARAMETER_ERROR_TYPE_V2
    /\ Exhausted(call) =>
          call.result.type = IF V1Wanted(call) THEN REQUEST_FAILED_ERROR_TYPE_V1
                                               ELSE REQUEST_FAILED_ERROR_TYPE_V2

\* C16: every error of the engine is tagged after the descriptor's isApiV1:
\* the invalid-parameter errors of validation (baseUrl, method type, method
\* name, token) and the request-failed error of an exhausted call have the
\* v1 type when isApiV1 is set and the v2 type when it is not.
C16_TagFollowsVersion == \A c \in DOMAIN calls : TagFollowsVersion(calls[c])

\* What holds: the tag follows isApiV1 except for a refused method name,
\* whose error has the v2 invalid-parameter type whatever isApiV1 is.
C16_TagFollowsVersionButForMethodName ==
    \A c \in DOMAIN calls :
        IF RejectedByValidation(calls[c]) /\ MethodNameRefused(calls[c])
        THEN calls[c].result.type = INVALID_PARAMETER_ERROR_TYPE_V2
        ELSE TagFollowsVersion(calls[c])

\* The last attempt was answered below 300 and neither the transport nor
\* the parser failed.
LastAttemptClean(call) ==
    /\ ~call.attempt.failed
    /\ call.attempt.statusCode < 300
    /\ ~ParseFailed(call)

IsError(v) == "name" \in DOMAIN v /\ v.name = "ApifyClientError"

\* C17: a call is resolved only from a last attempt answered below 300 with
\* no transport or parse failure; after any other attempt the call holds no
\* value: it waits for a retry it still has, or it is rejected with an error.
C17_ResolvedOnlyOnSuccess ==
    \A c \in DOMAIN calls :
        LET call == calls[c]
        IN  /\ call.pc = "resolved" => (HasAttempt(call) /\ LastAttemptClean(call))
            /\ (HasAttempt(call) /\ ~LastAttemptClean(call)) =>
                   \/ /\ call.pc = "backoff"
                      /\ call.iteration < Ceiling(call)
                      /\ call.result = Undef
                   \/ /\ call.pc = "rejected"
                      /\ IsError(call.result)

\* A 200 whose JSON body is truncated, on the only attempt the call has:
\* rejected, not resolved with the partial text.
C17_Witness ==
    \E c \in DOMAIN calls :
        /\ calls[c].pc = "rejected"
        /\ calls[c].verdicts # <<>>
        /\ calls[c].attempt.statusCode = 200
        /\ ParseFailed(calls[c])
        /\ IsError(calls[c].result)

\* The call was rejected on a status in [300,500) outside its retryable set.
RejectedAsTerminal(call) ==
    /\ call.pc = "rejected"
    /\ call.verdicts # <<>>
    /\ call.verdicts[Len(call.verdicts)] = "Terminal"

BodySent(call) == Truthy(Get(Spread(defaultOptions, call.descriptor), "body"))

\* The error's details name the request, the status code of the last attempt,
\* whether a body was sent, the number of attempts made and the cause.
CarriesFullContext(call) ==
    /\ {"url", "method", "hasBody", "iteration", "statusCode", "error"}
           \subseteq DOMAIN call.result.details
    /\ call.result.details["url"] = Get(defaultOptions, "url")
    /\ call.result.details["method"] = Str(ToUpperCase(call.descriptor["method"].val))
    /\ call.result.details["hasBody"] = Bool(BodySent(call))
    /\ call.result.details["iteration"] = Num(call.iteration)
    /\ call.result.details["statusCode"] = StatusOf(call)
    /\ call.result.details["error"] = CauseOf(call)

OtherCountersKept(n) ==
    \A m \in (CountedOrdinals(stats) \cup CountedOrdinals(stats')) \ {n} :
        /\ HasCounter(stats, m)
        /\ HasCounter(stats', m)
        /\ CounterAt(stats', m) = CounterAt(stats, m)

\* C20: an attempt that ends in anything but a received 429 (a success, a
\* transport failure, any other status) leaves every rate-limit counter as
\* it was; an attempt answered 429 at ordinal n leaves the counters of all
\* other ordinals as they were.
C20_OtherCountersUntouched ==
    [][\A c \in DOMAIN calls :
          AttemptSettles(c) =>
              IF AttemptThrottled(c)
              THEN OtherCountersKept(calls[c].iteration)
              ELSE stats'.rateLimitErrors = stats.rateLimitErrors]_vars

\* A call throttled on its first attempt and answered 500 on its second:
\* the counter of ordinal 1 stands at 1 and there is no other.
C20_Witness ==
    \E c \in DOMAIN calls :
        /\ calls[c].pc \in {"backoff", "rejected"}
        /\ calls[c].iteration = 2
        /\ calls[c].attempt.statusCode = 500
        /\ CountedOrdinals(stats) = {1}
        /\ CounterAt(stats, 1) = 1

---------------------------------------------------------------------------
(* Further properties of concurrent calls (specification SpecConcurrent). *)

\* The counter of ordinal n went up by one in this step, from nothing to 1
\* when there was none.
CounterRaised(n) ==
    /\ HasCounter(stats', n)
    /\ CounterAt(stats', n) = IF HasCounter(stats, n) THEN CounterAt(stats, n) + 1 ELSE 1

\* C19: an attempt answered 429 raises the counter of its ordinal by 1
\* whether or not 429 is in the call's retryOnStatusCodes; when it is not,
\* that attempt is the call's last: the call is rejected as terminal with
\* status 429, whatever its ceiling, and the counter has been raised.
C19_ThrottleCountedEvenIfTerminal ==
    [][\A c \in DOMAIN calls :
          AttemptThrottled(c) =>
              /\ CounterRaised(calls[c].iteration)
              /\ 429 \notin RetrySetOf(calls[c]) =>
                    /\ RejectedAsTerminal(calls[c])'
                    /\ calls'[c].iteration = calls[c].iteration
                    /\ calls'[c].result.details["statusCode"] = Num(429)]_vars

\* A call with ceiling MaxRepeats and an empty retryable set, rejected on
\* the 429 of its first attempt, the counter of ordinal 1 standing at 1.
C19_Witness ==
    \E c \in DOMAIN calls :
        /\ RejectedAsTerminal(calls[c])
        /\ RetrySetOf(calls[c]) = {}
        /\ Ceiling(calls[c]) = MaxRepeats
        /\ calls[c].attempt.statusCode = 429
        /\ calls[c].iteration = 1
        /\ HasCounter(stats, 1)
        /\ CounterAt(stats, 1) >= 1

\* The step starts an attempt of call c.
AttemptStarts(c) == calls[c].pc # "attempting" /\ calls'[c].pc = "attempting"

\* Attempts of the call started and not yet settled.
AttemptsInFlight(call) == call.iteration - Len(call.verdicts)

\* C21: the attempts of one call form a single chain. The first attempt
\* starts with ordinal 1; every later attempt starts only from the wait that
\* follows an attempt classified retryable, with the ordinal one higher; and
\* the attempts started exceed the attempts settled by one exactly while an
\* attempt is in flight and by none otherwise.
C21_AttemptsInSequence ==
    /\ [](\A c \in DOMAIN calls :
            AttemptsInFlight(calls[c]) = IF calls[c].pc = "attempting" THEN 1 ELSE 0)
    /\ [][\A c \in DOMAIN calls :
            AttemptStarts(c) =>
                \/ /\ calls[c].pc = "idle"
                   /\ calls'[c].iteration = 1
                \/ /\ calls[c].pc = "backoff"
                   /\ calls[c].verdicts # <<>>
                   /\ calls[c].verdicts[Len(calls[c].verdicts)] = "Retryable"
                   /\ calls'[c].iteration = calls[c].iteration + 1
                   /\ calls'[c].verdicts = calls[c].verdicts]_vars

\* Two calls, each in its last attempt after MaxRepeats - 1 retryable ones.
C21_Witness ==
    \A c \in DOMAIN calls :
        /\ calls[c].pc = "attempting"
        /\ calls[c].iteration = MaxRepeats
        /\ Len(calls[c].verdicts) = MaxRepeats - 1

\* Calls that passed normalization and entered _call.
StartedCalls == { c \in DOMAIN calls : calls[c].pc # "idle" /\ calls[c].iteration > 0 }

Finished(call) == call.pc \in {"resolved", "rejected"}

\* What a finished call settled with is told by its own descriptor and its
\* own last attempt.
SettledOnItsOwn(call) ==
    /\ call.iteration = Len(call.verdicts)
    /\ AllRetryable(SubSeq(call.verdicts, 1, Len(call.verdicts) - 1))
    /\ call.iteration <= Ceiling(call)
    /\ IF LastAttemptClean(call)
       THEN call.pc = "resolved" /\ call.result = Delivered(call)
       ELSE /\ call.pc = "rejected"
            /\ call.result.details["statusCode"] = StatusOf(call)
            /\ IF TerminalStatus(call)
               THEN RejectedAsTerminal(call)
               ELSE Exhausted(call) /\ call.iteration = Ceiling(call)
                    /\ call.result.details["iteration"] = Num(Ceiling(call))

\* C22: however the attempts of concurrent calls interleave, no counter
\* update is lost and the calls do not disturb one another. At every moment,
\* and so once all calls have finished, stats.calls is the number of calls
\* that passed normalization and stats.requests the sum of the attempts the
\* calls made; the rate-limit counters start empty and change only when an
\* attempt is answered 429, by exactly 1 at that attempt's ordinal, so that
\* each counts the calls throttled at its ordinal; a step of one call leaves
\* every other call as it was, and a finished call has the ordinal and the
\* outcome that its own descriptor and responses give it.
C22_NoLostUpdate ==
    /\ [](/\ stats.calls = Cardinality(StartedCalls)
          /\ stats.requests = SumIterations(DOMAIN calls)
          /\ \A c \in DOMAIN calls :
                (Finished(calls[c]) /\ calls[c].verdicts # <<>>) => SettledOnItsOwn(calls[c]))
    /\ [][/\ \A c \in DOMAIN calls :
               AttemptThrottled(c) =>
                   CounterRaised(calls[c].iteration) /\ OtherCountersKept(calls[c].iteration)
          /\ (\A c \in DOMAIN calls : ~AttemptThrottled(c)) =>
                   stats'.rateLimitErrors = stats.rateLimitErrors
          /\ \A c, d \in DOMAIN calls :
               (calls'[c] # calls[c] /\ d # c) => calls'[d] = calls[d]]_vars

\* All calls finished, both throttled on their first attempt, one of them
\* again on a later one: counters 2 at ordinal 1 and 1 at a later ordinal.
C22_Witness ==
    /\ \A c \in DOMAIN calls : Finished(calls[c]) /\ calls[c].verdicts # <<>>
    /\ stats.calls = MaxConcurrent
    /\ stats.requests > MaxConcurrent
    /\ HasCounter(stats, 1)
    /\ CounterAt(stats, 1) = MaxConcurrent
    /\ \E n \in 2..MaxRepeats : HasCounter(stats, n) /\ CounterAt(stats, n) = 1

\* C24: a call that passes normalization raises stats.calls by exactly 1 in
\* the step that starts its first attempt and never again, however many
\* attempts follow; a call refused by normalization raises nothing; every
\* attempt raises stats.requests by exactly 1 in the step that starts it, and
\* the step that settles it (success, transport failure, error status)
\* changes neither counter.
C24_CountedOncePerCallAndAttempt ==
    [][\A c \in DOMAIN calls :
          /\ AttemptStarts(c) =>
                /\ stats'.requests = stats.requests + 1
                /\ stats'.calls = stats.calls + (IF calls[c].pc = "idle" THEN 1 ELSE 0)
          /\ (calls[c].pc = "idle" /\ RejectedByValidation(calls[c])') =>
                (stats'.calls = stats.calls /\ stats'.requests = stats.requests)
          /\ AttemptSettles(c) =>
                (stats'.calls = stats.calls /\ stats'.requests = stats.requests)]_vars

\* Two finished calls of MaxRepeats attempts each, one resolved on its last
\* attempt and one rejected: 2 calls, 2 * MaxRepeats requests.
C24_Witness ==
    /\ \A c \in DOMAIN calls : Finished(calls[c]) /\ calls[c].iteration = MaxRepeats
    /\ \E c \in DOMAIN calls : calls[c].pc = "resolved"
    /\ \E c \in DOMAIN calls : calls[c].pc = "rejected"
    /\ stats.calls = MaxConcurrent
    /\ stats.requests = MaxConcurrent * MaxRepeats

---------------------------------------------------------------------------
(* Termination (specification SpecResponsive). *)

\* C23: when every network attempt and every backoff wait completes, a call
\* that has started is eventually resolved or rejected, whatever the
\* responses are; and at no moment has a call made more than
\* expBackoffMaxRepeats attempts.
C23_EveryCallTerminates ==
    /\ \A c \in Calls : InFlight(calls[c]) ~> Finished(calls[c])
    /\ [](\A c \in Calls :
            calls[c].iteration > 0 =>
                /\ calls[c].iteration <= Ceiling(calls[c])
                /\ Len(calls[c].verdicts) <= Ceiling(calls[c]))

\* Every call has finished, one of them rejected after MaxRepeats attempts that
\* were all retryable.
C23_Witness ==
    /\ \A c \in Calls : Finished(calls[c])
    /\ \E c \in Calls :
          /\ Exhausted(calls[c])
          /\ calls[c].iteration = MaxRepeats
          /\ AllRetryable(calls[c].verdicts)

---------------------------------------------------------------------------
(* ApifyApiError (src/src/apify_api_error.js): the error built from a       *)
(* response. The fields read off the call stack and the URL (clientMethod,  *)
(* path, stack) are left out.                                               *)

Null == [type |-> "null", val |-> <<>>]
BigInt(n) == [type |-> "bigint", val |-> <<n>>]

\* A plain object: its properties in insertion order, each <<key, value>>.
Obj(props) == [type |-> "plain", val |-> props]

\* An object that contains itself.
Cyclic == [type |-> "cyclic", val |-> <<>>]

\* v.k: the property k of v, undefined when v has none.
Prop(v, k) ==
    IF v.type = "plain" /\ \E j \in 1..Len(v.val) : v.val[j][1] = k
    THEN v.val[CHOOSE j \in 1..Len(v.val) : v.val[j][1] = k][2]
    ELSE Undef

DigitChars == <<"0","1","2","3","4","5","6","7","8","9">>

Spaces(n) == [j \in 1..n |-> " "]

\* `${v}`: string coercion.
ToStringChars(v) ==
    CASE v.type = "undefined" -> <<"u","n","d","e","f","i","n","e","d">>
      [] v.type = "null" -> <<"n","u","l","l">>
      [] v.type = "string" -> v.val
      [] v.type \in {"number", "bigint"} -> <<DigitChars[v.val[1] + 1]>>
      [] v.type = "boolean" -> IF v.val[1] THEN <<"t","r","u","e">> ELSE <<"f","a","l","s","e">>
      [] OTHER -> <<"[","o","b","j","e","c","t"," ","O","b","j","e","c","t","]">>

Thrown == [throws |-> TRUE, defined |-> FALSE, text |-> <<>>]
NoText == [throws |-> FALSE, defined |-> FALSE, text |-> <<>>]
Text(t) == [throws |-> FALSE, defined |-> TRUE, text |-> t]

RECURSIVE Stringify(_, _)
RECURSIVE StringifyProps(_, _, _)

\* The properties of an object from the j-th on, each on a line of its own
\* at the given indentation; a property whose value is undefined is left out.
StringifyProps(props, j, indent) ==
    IF j > Len(props) THEN Text(<<>>)
    ELSE LET value == Stringify(props[j][2], indent)
             rest == StringifyProps(props, j + 1, indent)
         IN  IF value.throws \/ rest.throws THEN Thrown
             ELSE IF ~value.defined THEN rest
             ELSE Text(<<"\n">> \o Spaces(indent) \o <<"\"">> \o props[j][1] \o <<"\"", ":", " ">>
                       \o value.text \o (IF rest.text = <<>> THEN <<>> ELSE <<",">>)
                       \o rest.text)

\* JSON.stringify(v, null, 2) with v at the given indentation: a text, no
\* text (undefined), or a TypeError (a cycle, a BigInt).
Stringify(v, indent) ==
    CASE v.type = "undefined" -> NoText
      [] v.type = "null" -> Text(<<"n","u","l","l">>)
      [] v.type = "string" -> Text(<<"\"">> \o v.val \o <<"\"">>)
      [] v.type = "number" -> Text(<<DigitChars[v.val[1] + 1]>>)
      [] v.type = "plain" ->
            LET inner == StringifyProps(v.val, 1, indent + 2)
            IN  IF inner.throws THEN Thrown
                ELSE IF inner.text = <<>> THEN Text(<<"{","}">>)
                ELSE Text(<<"{">> \o inner.text \o <<"\n">> \o Spaces(indent) \o <<"}">>)
      [] OTHER -> Thrown

UnexpectedErrorPrefix ==
    <<"U","n","e","x","p","e","c","t","e","d"," ","e","r","r","o","r",":"," ">>

\* try { dataString = JSON.stringify(data, null, 2) } catch { dataString = `${data}` }
DataString(data) ==
    LET json == Stringify(data, 0)
    IN  IF json.throws THEN ToStringChars(data)
        ELSE IF json.defined THEN json.text
        ELSE ToStringChars(Undef)

\* super(message): Error keeps String(message), the empty string for undefined.
ErrorMessage(message) == IF message = Undef THEN Str(<<>>) ELSE Str(ToStringChars(message))

\* new ApifyApiError(response, attempt)
ApifyApiError(response, attempt) ==
    LET data == response.data
        nested == Truthy(data) /\ Truthy(Prop(data, <<"e","r","r","o","r">>))
        error == Prop(data, <<"e","r","r","o","r">>)
        message == IF nested THEN Prop(error, <<"m","e","s","s","a","g","e">>)
                   ELSE Str(UnexpectedErrorPrefix \o DataString(data))
        type == IF nested THEN Prop(error, <<"t","y","p","e">>) ELSE Undef
    IN  [name |-> "ApifyApiError",
         message |-> ErrorMessage(message),
         statusCode |-> response.status,
         type |-> type,
         attempt |-> attempt,
         httpMethod |-> IF Truthy(response.config)
                        THEN Prop(response.config, <<"m","e","t","h","o","d">>)
                        ELSE response.config]

\* The property key -> v of an object literal, nothing when the literal has none.
OptProp(key, v) == IF v = Absent THEN <<>> ELSE << <<key, v>> >>

\* What a response body may carry under "error".
NestedErrors ==
    {Absent, Undef, Null, Str(<<>>), Str(<<"x">>), Num(1)}
    \cup { Obj(OptProp(<<"t","y","p","e">>, t) \o OptProp(<<"m","e","s","s","a","g","e">>, m)) :
             t \in {Absent, Str(<<"t">>)}, m \in {Absent, Str(<<"m">>)} }

\* What a response body may carry besides.
OtherProps == {Absent, Undef, Null, Str(<<"v">>), Obj(<<>>), BigInt(1)}

ResponseData ==
    {Undef, Null, Str(<<>>), Str(<<"x">>), Num(0), Num(7), Cyclic, BigInt(1)}
    \cup { Obj(OptProp(<<"e","r","r","o","r">>, e) \o OptProp(<<"x">>, o)) :
             e \in NestedErrors, o \in OtherProps }

Responses ==
    [ data : ResponseData,
      status : {404, RATE_LIMIT_EXCEEDED_STATUS_CODE, 500},
      config : {Undef, Obj(<< <<<<"m","e","t","h","o","d">>, Str(<<"G","E","T">>)>> >>)} ]

InitApiError ==
    /\ defaultOptions \in NormDefaults
    /\ stats = [calls |-> 0, requests |-> 0, rateLimitErrors |-> [k \in {} |-> 0]]
    /\ calls = [c \in Calls |-> NoCall]
    /\ norm = NormIdle
    /\ \E r \in Responses, a \in 1..MaxRepeats :
          built = [stage |-> "given", input |-> [response |-> r, attempt |-> a], output |-> Undef]

\* new ApifyApiError(response, attempt)
NewApifyApiError ==
    /\ built.stage = "given"
    /\ built' = [built EXCEPT !.stage = "built",
                    !.output = ApifyApiError(built.input.response, built.input.attempt)]
    /\ UNCHANGED <<defaultOptions, stats, calls, norm>>

NextApiError == NewApifyApiError

SpecApiError == InitApiError /\ [][NextApiError]_vars

---------------------------------------------------------------------------
(* The error built from a response (specification SpecApiError)             *)

Owns(v, k) == v.type = "plain" /\ \E j \in 1..Len(v.val) : v.val[j][1] = k

NestedErrorOf(data) == Prop(data, <<"e","r","r","o","r">>)

\* The body carries a nested error object with type and message fields.
HasNestedError(data) ==
    /\ Owns(data, <<"e","r","r","o","r">>)
    /\ Owns(NestedErrorOf(data), <<"t","y","p","e">>)
    /\ Owns(NestedErrorOf(data), <<"m","e","s","s","a","g","e">>)

\* The message is the serialized body after "Unexpected error: ", the body
\* coerced to a string where serialization throws.
MessageIsSerializedBody(error, data) ==
    error.message = Str(UnexpectedErrorPrefix \o
                        (IF Stringify(data, 0).throws THEN ToStringChars(data)
                         ELSE DataString(data)))

ErrorBuilt == built.stage = "built" /\ built.output.name = "ApifyApiError"

\* C25: the error built from a failed response takes the type and the
\* message of the nested error when the body carries a nested error object
\* with type and message fields; for every other body its message is
\* "Unexpected error: " followed by the serialized body, or by the body
\* coerced to a string when serialization throws.
C25_NestedErrorOrSerializedBody ==
    ErrorBuilt =>
        LET data == built.input.response.data
        IN  IF HasNestedError(data)
            THEN /\ built.output.type = Prop(NestedErrorOf(data), <<"t","y","p","e">>)
                 /\ built.output.message = Prop(NestedErrorOf(data), <<"m","e","s","s","a","g","e">>)
            ELSE MessageIsSerializedBody(built.output, data)

\* What the constructor does instead: any truthy value under "error" of a
\* truthy body is taken for the nested error, with or without the two
\* fields; only the remaining bodies are serialized.
C25_AnyTruthyNestedErrorIsTaken ==
    ErrorBuilt =>
        LET data == built.input.response.data
            error == NestedErrorOf(data)
        IN  IF Truthy(data) /\ Truthy(error)
            THEN /\ built.output.type = Prop(error, <<"t","y","p","e">>)
                 /\ built.output.message = ErrorMessage(Prop(error, <<"m","e","s","s","a","g","e">>))
            ELSE MessageIsSerializedBody(built.output, data) /\ built.output.type = Undef

\* A body whose nested error has neither field yields an error with an
\* empty message and no type.
C25_EmptyNestedErrorLosesTheBody ==
    /\ ErrorBuilt
    /\ built.input.response.data = Obj(<< <<<<"e","r","r","o","r">>, Obj(<<>>)>> >>)
    /\ built.output.message = Str(<<>>)
    /\ built.output.type = Undef

---------------------------------------------------------------------------
(* _getAxiosConfig: the request built from a normalized descriptor. Only    *)
(* the fields that come from the descriptor's url, method, qs, token and    *)
(* body are kept; headers, agents and the transform functions are left out. *)

\* { ...options.qs }: the own entries of qs, none when qs is undefined.
OwnEntries(qs) == IF qs = Undef THEN [k \in {} |-> Undef] ELSE qs

\* _getAxiosConfig(options)
GetAxiosConfig(options) ==
    [url |-> Get(options, "url"),
     method |-> Get(options, "method"),
     params |-> Spread(OwnEntries(Get(options, "qs")), [token |-> Get(options, "token")]),
     data |-> Get(options, "body")]

\* The query string the transport writes for params: one entry per key
\* whose value is neither undefined nor null, the value as a string.
SentParams(params) ==
    [k \in {j \in DOMAIN params : params[j] \notin {Undef, Null}} |-> ToStringChars(params[k])]

\* The query parameters a caller may pass.
QsInputs ==
    {Absent} \cup
    { Bag(r) : r \in [ token : {Absent, Undef, Str(<<"q">>), Str(<<"t">>)},
                       limit : {Absent, Undef, Num(1)},
                       desc : {Absent, Bool(TRUE)} ] }

AxiosCallOptions ==
    { Bag(r) : r \in [ url : {Str(<<"h","/">>)},
                       method : {Str(<<"G","E","T">>)},
                       qs : QsInputs,
                       token : {Absent, Undef, Str(<<>>), Str(<<"t">>), Num(1)},
                       body : {Absent, Str(<<"b">>)} ] }

InitAxiosConfig ==
    /\ defaultOptions \in NormDefaults
    /\ stats = [calls |-> 0, requests |-> 0, rateLimitErrors |-> [k \in {} |-> 0]]
    /\ calls = [c \in Calls |-> NoCall]
    /\ norm = NormIdle
    /\ \E o \in AxiosCallOptions :
          built = [stage |-> "options", input |-> o, output |-> Undef]

\* const axiosConfig = this._getAxiosConfig(options);
BuildAxiosConfig ==
    /\ built.stage = "options"
    /\ built' = [built EXCEPT !.stage = "config", !.output = GetAxiosConfig(built.input)]
    /\ UNCHANGED <<defaultOptions, stats, calls, norm>>

\* response = await axios.request(axiosConfig): the query string goes out.
SendRequest ==
    /\ built.stage = "config"
    /\ built' = [built EXCEPT !.stage = "sent", !.output = SentParams(built.output.params)]
    /\ UNCHANGED <<defaultOptions, stats, calls, norm>>

NextAxiosConfig == BuildAxiosConfig \/ SendRequest

SpecAxiosConfig == InitAxiosConfig /\ [][NextAxiosConfig]_vars

---------------------------------------------------------------------------
(* Query parameters on the wire (specification SpecAxiosConfig)             *)

RequestSent == built.stage = "sent"

CallerQs == OwnEntries(Get(built.input, "qs"))

DescriptorToken == Get(built.input, "token")

\* C26: the query parameters sent are the caller's query parameters plus
\* the descriptor's token under the key "token"; when the descriptor has no
\* token, the caller's query parameters are sent unchanged, a "token" entry
\* among them included.
C26_QueryPlusToken ==
    RequestSent =>
        IF DescriptorToken = Undef
        THEN built.output = SentParams(CallerQs)
        ELSE built.output = SentParams(Spread(CallerQs, [token |-> DescriptorToken]))

\* What is sent instead: the caller's parameters other than "token", and
\* under "token" the descriptor's token alone, nothing when it has none.
C26_OnlyTheDescriptorTokenIsSent ==
    RequestSent =>
        /\ \A k \in DOMAIN CallerQs \ {"token"} :
              CallerQs[k] \notin {Undef, Null} =>
                  k \in DOMAIN built.output /\ built.output[k] = ToStringChars(CallerQs[k])
        /\ DOMAIN built.output \subseteq DOMAIN CallerQs \cup {"token"}
        /\ IF DescriptorToken \in {Undef, Null}
           THEN "token" \notin DOMAIN built.output
           ELSE built.output["token"] = ToStringChars(DescriptorToken)

\* A caller's "token" parameter is dropped when the descriptor has no token.
C26_CallerTokenDropped ==
    /\ RequestSent
    /\ DescriptorToken = Undef
    /\ "token" \in DOMAIN CallerQs /\ CallerQs["token"] = Str(<<"q">>)
    /\ "token" \notin DOMAIN built.output

====
